---- MODULE Spec2Model ----
(***************************************************************************)
(* Model of memcg_priority.bpf.c: the tracepoint handler that aggregates   *)
(* page-fault counts of the HIGH cgroup in a 1-second window, the          *)
(* need_protection() query and the three struct_ops callbacks.             *)
(*                                                                         *)
(* Every BPF program invocation is a process that runs the handler one     *)
(* shared-memory access at a time (the handlers take no lock), so that     *)
(* Spec contains every interleaving.  SpecSeq is the same program with     *)
(* the invocations executed one at a time.                                 *)
(*                                                                         *)
(* Time and the 64-bit width are scaled: ONE_SECOND_NS is 2 clock ticks    *)
(* and unsigned arithmetic is modulo U64_MOD.                              *)
(*                                                                         *)
(* SpecLoader adds main() of memcg_priority.c: it opens the cgroups and    *)
(* the skeleton, writes local_config, loads and attaches the programs,     *)
(* and cleans up; a program is invoked only while its link is attached.    *)
(* Spec and SpecSeq start where the loader waits in its main loop.         *)
(***************************************************************************)
EXTENDS Integers, Sequences, FiniteSets, TLC

\* ---------------------------------------------------------------- bounds
NProcs == 2          \* concurrent execution contexts (CPUs)
MaxCalls == 3        \* program invocations in one behaviour
MaxClock == 3        \* last value of the monotonic clock
MaxVal == 2          \* largest ctx->val of an event
MaxThreshold == 1    \* largest local_config.threshold
MaxDelay == 1        \* largest local_config.over_high_ms
MaxGroup == 2        \* cgroup ids 1..MaxGroup
HighGroup == 1       \* the cgroup id the loader resolved for --high

\* ------------------------------------------------------ program constants
ONE_SECOND_NS == 2   \* scaled: 1000000000ULL
U64_MOD == 64        \* scaled: 2^64, the width of __u64
PGFAULT == 23
STAT_HIGH_DELAY_CALLS == 0
STAT_HIGH_DELAY_ACTIVE == 1
STAT_BELOW_LOW_CALLS == 2
STAT_BELOW_LOW_ACTIVE == 3
MAX_LOW_CGROUPS == 2 \* scaled: 16

Procs == 1..NProcs
Groups == 1..MaxGroup
Items == {PGFAULT, PGFAULT + 1}
Vals == 0..MaxVal
StatKeys == 0..3

VARIABLES
    local_config,     \* struct memcg_priority_config, written before attach
    data,             \* aggregation_map[0]: struct AggregationData
    trigger_ts,       \* trigger_ts_map[0]
    stats,            \* stats[0..3]
    now,              \* the last reading of the monotonic clock
    pc,               \* position of each invocation
    loc,              \* locals of each invocation
    started,          \* invocations begun so far
    tally,            \* history: completed callbacks, by result
    cross,            \* history: timestamp of the last recorded crossing, -1 if none
    recent,           \* history: value of the counted events since the last
                      \*          crossing, by arrival time
    ld,               \* main() of the loader: position, arguments and locals
    kern,             \* kernel objects of the loader: open descriptors, attached
                      \*          links, loaded object
    lhist             \* history of the loader: failures met, what was ever
                      \*          loaded or attached, config fields written

vars == <<local_config, data, trigger_ts, stats, now, pc, loc, started, tally, cross,
          recent, ld, kern, lhist>>

\* ------------------------------------------------------- pure operations

\* __u64 subtraction (current_ts - *ts), wrapping
U64Sub(a, b) == (a - b + U64_MOD) % U64_MOD

\* mutant: "=" written for "+="
U64Add_assign(a, b) == b % U64_MOD

\* __u64 addition (data->sum += ctx->val), wrapping
U64Add(a, b) == (a + b) % U64_MOD

\* mutant: the item is not compared
IsRelevant_any_item(id, item) == id = local_config.high_cgroup_id

\* line 75: the event is counted
IsRelevant(id, item) == id = local_config.high_cgroup_id /\ item = PGFAULT

\* mutant: "<=" written for "<"
InWindow_le(cur, ws) == U64Sub(cur, ws) <= ONE_SECOND_NS

\* line 85: the event falls in the stored window
InWindow(cur, ws) == U64Sub(cur, ws) < ONE_SECOND_NS

\* mutant: ">=" written for ">"
Exceeds_ge(sum, thr) == sum >= thr

\* line 93: threshold exceeded
Exceeds(sum, thr) == sum > thr

\* line 113: nothing recorded in trigger_ts_map
NeverTriggered(t) == t = 0

\* mutant: "<=" written for "<"
WithinProtection_le(cur, t) == U64Sub(cur, t) <= ONE_SECOND_NS

\* line 119: inside the protection window
WithinProtection(cur, t) == U64Sub(cur, t) < ONE_SECOND_NS

\* line 137: below_low is in use
LowGate(cfg) == cfg.use_below_low

\* mutant: below_min gated by the flag of below_low
MinGate_low(cfg) == cfg.use_below_low

\* line 158: below_min is in use
MinGate(cfg) == cfg.use_below_min

\* mutant: the delay is not tested
DelayGate_always(cfg) == TRUE

\* line 179: a delay is configured
DelayGate(cfg) == cfg.over_high_ms # 0

\* __sync_fetch_and_add(cnt, 1) on stats[key]
FetchAndAdd(s, key) == [s EXCEPT ![key] = @ + 1]

\* ----------------------------------------------------------------- state

Times == 0..MaxClock

NoEvents == [t \in Times |-> 0]

RECURSIVE SumRange(_, _, _)
SumRange(f, a, b) == IF a > b THEN 0 ELSE f[a] + SumRange(f, a + 1, b)

\* history: what the events counted since window_start_ts, less than a
\* second before t, add up to
WindowTotal(t) ==
    IF t >= data.window_start_ts /\ t - data.window_start_ts < ONE_SECOND_NS
    THEN SumRange(recent, data.window_start_ts, t) ELSE 0

IdleLoc == [op |-> "none", id |-> 0, item |-> 0, val |-> 0,
            current_ts |-> 0, ws |-> 0, reg |-> 0, chk |-> 0, seen |-> 0, mem |-> 0,
            sum0 |-> 0, total |-> 0, crossed |-> FALSE, asked |-> FALSE, np |-> FALSE,
            retb |-> FALSE, retv |-> 0, qtime |-> 0]

\* ------------------------------------------- loader: objects and values

LowSlots == 0..(MAX_LOW_CGROUPS - 1)

\* the links main() can hold
TpLink == <<"tp", 0>>
HighLink == <<"high", 0>>
LowLink(i) == <<"low", i>>

\* the descriptor open() returns: k = 0 for --high, 1 + i for the i-th --low
CgroupFd(k) == 3 + k

\* the lines 227-231, in order
ConfigOrder == <<"high_cgroup_id", "threshold", "over_high_ms", "use_below_low",
                 "use_below_min">>

ConfigFields == {ConfigOrder[k] : k \in 1..Len(ConfigOrder)}

\* local_config lives in .bss
ZeroConfig == [high_cgroup_id |-> 0, threshold |-> 0, over_high_ms |-> 0,
               use_below_low |-> FALSE, use_below_min |-> FALSE]

\* what memcg_priority__load() returns on failure (-EPERM, -EINVAL)
LoadErrors == {-1, -22}

\* the exit status the parent sees: the low 8 bits of main()'s return value
ExitStatus(e) == e % 256

\* the command line, as getopt_long() at lines 152-184 leaves it
Args == [parse : {"ok", "help", "bad", "too_many"},
         high_path : BOOLEAN,
         n_low : 0..MAX_LOW_CGROUPS,
         threshold : 1..MaxThreshold,
         delay_ms : 0..MaxDelay,
         use_below_low : BOOLEAN,
         use_below_min : BOOLEAN]

\* main() waiting in its loop (line 309) with everything attached, one LOW
\* cgroup, and the configuration cfg written
AttachedLoader(cfg) ==
    [lpc |-> "main_loop",
     args |-> [parse |-> "ok", high_path |-> TRUE, n_low |-> 1,
               threshold |-> cfg.threshold, delay_ms |-> cfg.over_high_ms,
               use_below_low |-> cfg.use_below_low,
               use_below_min |-> cfg.use_below_min],
     low_count |-> 1,
     high_fd |-> CgroupFd(0),
     low_fds |-> [i \in LowSlots |-> IF i < 1 THEN CgroupFd(1 + i) ELSE -1],
     skel |-> "loaded",
     tp_link |-> TRUE, high_link |-> TRUE,
     low_links |-> [i \in LowSlots |-> i < 1],
     i |-> 1, err |-> 0, status |-> -1]

AttachedKernel ==
    [fds |-> {CgroupFd(0), CgroupFd(1)},
     links |-> {TpLink, HighLink, LowLink(0)},
     loaded |-> TRUE]

AttachedHistory ==
    [failed |-> FALSE, id0 |-> FALSE, ever_loaded |-> TRUE, ever_attached |-> TRUE,
     written |-> ConfigFields]

Init ==
    /\ local_config \in [high_cgroup_id : {HighGroup},
                         threshold : 1..MaxThreshold,
                         over_high_ms : 0..MaxDelay,
                         use_below_low : BOOLEAN,
                         use_below_min : BOOLEAN]
    /\ data = [sum |-> 0, window_start_ts |-> 0]
    /\ trigger_ts = 0
    /\ stats = [k \in StatKeys |-> 0]
    /\ now = 0
    /\ pc = [p \in Procs |-> "idle"]
    /\ loc = [p \in Procs |-> IdleLoc]
    /\ started = 0
    /\ tally = [low |-> 0, lowTrue |-> 0, delay |-> 0, delayNZ |-> 0]
    /\ cross = -1
    /\ recent = NoEvents
    /\ ld = AttachedLoader(local_config)
    /\ kern = AttachedKernel
    /\ lhist = AttachedHistory

AllIdle == \A p \in Procs : pc[p] = "idle"

\* a program is invoked only through an attached link (the tracepoint link,
\* the high_mcg_ops link, a low_mcg_ops link), and
\* a free execution context takes the next invocation (the contexts are
\* interchangeable: the lowest free one is used)
CanBegin(p) ==
    /\ pc[p] = "idle"
    /\ \A q \in Procs : q < p => pc[q] # "idle"
    /\ started < MaxCalls

\* bpf_ktime_get_ns(): the monotonic clock, never below an earlier reading
ClockReadings == now..MaxClock

\* ------------------------------------------- handle_count_memcg_events

\* lines 67-82: entry, the filter on cgroup id and item (return 0 when the
\* event is not counted), then current_ts = bpf_ktime_get_ns()
handle_count_memcg_events(p, id, item, val) ==
    /\ TpLink \in kern.links
    /\ CanBegin(p)
    /\ started' = started + 1
    /\ IF IsRelevant(id, item)
       THEN \E t \in ClockReadings :
               /\ now' = t
               /\ loc' = [loc EXCEPT ![p] =
                            [IdleLoc EXCEPT !.op = "on_event", !.id = id, !.item = item,
                                            !.val = val, !.sum0 = data.sum,
                                            !.total = WindowTotal(t) + val,
                                            !.current_ts = t]]
               /\ recent' = [recent EXCEPT ![t] = @ + val]
               /\ pc' = [pc EXCEPT ![p] = "ev_cmp"]
       ELSE /\ UNCHANGED <<now, recent>>
            /\ loc' = [loc EXCEPT ![p] =
                         [IdleLoc EXCEPT !.op = "on_event", !.id = id, !.item = item,
                                         !.val = val, !.sum0 = data.sum]]
            /\ pc' = [pc EXCEPT ![p] = "ret"]
    /\ UNCHANGED <<ld, kern, lhist, local_config, data, trigger_ts, stats, tally, cross>>

\* line 85: load data->window_start_ts and branch
ev_cmp(p) ==
    /\ pc[p] = "ev_cmp"
    /\ loc' = [loc EXCEPT ![p].ws = data.window_start_ts]
    /\ pc' = [pc EXCEPT ![p] =
                IF InWindow(loc[p].current_ts, data.window_start_ts)
                THEN "ev_load" ELSE "ev_reset_ws"]
    /\ UNCHANGED <<ld, kern, lhist, local_config, data, trigger_ts, stats, now, started, tally, cross, recent>>

\* line 86: load data->sum
ev_load(p) ==
    /\ pc[p] = "ev_load"
    /\ loc' = [loc EXCEPT ![p].reg = data.sum]
    /\ pc' = [pc EXCEPT ![p] = "ev_store"]
    /\ UNCHANGED <<ld, kern, lhist, local_config, data, trigger_ts, stats, now, started, tally, cross, recent>>

\* line 86: store data->sum = loaded + ctx->val
ev_store(p) ==
    /\ pc[p] = "ev_store"
    /\ data' = [data EXCEPT !.sum = U64Add(loc[p].reg, loc[p].val)]
    /\ loc' = [loc EXCEPT ![p].reg = U64Add(loc[p].reg, loc[p].val)]
    /\ pc' = [pc EXCEPT ![p] = "ev_check"]
    /\ UNCHANGED <<ld, kern, lhist, local_config, trigger_ts, stats, now, started, tally, cross, recent>>

\* line 88: data->window_start_ts = current_ts
ev_reset_ws(p) ==
    /\ pc[p] = "ev_reset_ws"
    /\ data' = [data EXCEPT !.window_start_ts = loc[p].current_ts]
    /\ pc' = [pc EXCEPT ![p] = "ev_reset_sum"]
    /\ UNCHANGED <<ld, kern, lhist, local_config, trigger_ts, stats, now, loc, started, tally, cross, recent>>

\* a handler that carries the old sum into the restarted window
ev_reset_sum_add(p) ==
    /\ pc[p] = "ev_reset_sum"
    /\ data' = [data EXCEPT !.sum = U64Add(data.sum, loc[p].val)]
    /\ loc' = [loc EXCEPT ![p].reg = U64Add(data.sum, loc[p].val)]
    /\ pc' = [pc EXCEPT ![p] = "ev_check"]
    /\ UNCHANGED <<ld, kern, lhist, local_config, trigger_ts, stats, now, started, tally, cross, recent>>

\* line 89: data->sum = ctx->val
ev_reset_sum(p) ==
    /\ pc[p] = "ev_reset_sum"
    /\ data' = [data EXCEPT !.sum = loc[p].val]
    /\ loc' = [loc EXCEPT ![p].reg = loc[p].val]
    /\ pc' = [pc EXCEPT ![p] = "ev_check"]
    /\ UNCHANGED <<ld, kern, lhist, local_config, trigger_ts, stats, now, started, tally, cross, recent>>

\* line 93: compare data->sum with the threshold.  data is a plain pointer:
\* the build may load data->sum again or reuse the value it just stored.
ev_check(p) ==
    /\ pc[p] = "ev_check"
    /\ \E s \in {data.sum, loc[p].reg} :
          /\ loc' = [loc EXCEPT ![p].chk = s]
          /\ pc' = [pc EXCEPT ![p] =
                      IF Exceeds(s, local_config.threshold) THEN "ev_trigger" ELSE "ret"]
    /\ UNCHANGED <<ld, kern, lhist, local_config, data, trigger_ts, stats, now, started, tally, cross, recent>>

\* line 94: bpf_map_update_elem(&trigger_ts_map, &key, &current_ts, BPF_ANY)
ev_trigger(p) ==
    /\ pc[p] = "ev_trigger"
    /\ trigger_ts' = loc[p].current_ts
    /\ cross' = loc[p].current_ts
    /\ recent' = NoEvents
    /\ loc' = [loc EXCEPT ![p].crossed = TRUE]
    /\ pc' = [pc EXCEPT ![p] = "ev_zero"]
    /\ UNCHANGED <<ld, kern, lhist, local_config, data, stats, now, started, tally>>

\* a handler that leaves the sum standing after a crossing
ev_zero_keep(p) ==
    /\ pc[p] = "ev_zero"
    /\ pc' = [pc EXCEPT ![p] = "ev_restart"]
    /\ UNCHANGED <<ld, kern, lhist, local_config, data, trigger_ts, stats, now, loc, started, tally, cross, recent>>

\* line 95: data->sum = 0
ev_zero(p) ==
    /\ pc[p] = "ev_zero"
    /\ data' = [data EXCEPT !.sum = 0]
    /\ pc' = [pc EXCEPT ![p] = "ev_restart"]
    /\ UNCHANGED <<ld, kern, lhist, local_config, trigger_ts, stats, now, loc, started, tally, cross, recent>>

\* line 96: data->window_start_ts = current_ts
ev_restart(p) ==
    /\ pc[p] = "ev_restart"
    /\ data' = [data EXCEPT !.window_start_ts = loc[p].current_ts]
    /\ pc' = [pc EXCEPT ![p] = "ret"]
    /\ UNCHANGED <<ld, kern, lhist, local_config, trigger_ts, stats, now, loc, started, tally, cross, recent>>

\* ------------------------------------------------------- need_protection

\* where the caller of need_protection() continues with its result r
AfterNeedProtection(p, r, t) ==
    /\ loc' = [loc EXCEPT ![p].asked = TRUE, ![p].np = r, ![p].qtime = t,
                           ![p].mem = trigger_ts,
                           ![p].retb = IF loc[p].op = "below_min" THEN r ELSE @]
    /\ pc' = [pc EXCEPT ![p] =
                IF r /\ loc[p].op \in {"below_low", "get_high_delay_ms"}
                THEN "cb_active" ELSE "ret"]

\* lines 112-114: load *trigger_ts; zero means never triggered
np_read(p) ==
    /\ pc[p] = "np_read"
    /\ IF NeverTriggered(trigger_ts)
       THEN AfterNeedProtection(p, FALSE, now)
       ELSE /\ loc' = [loc EXCEPT ![p].seen = trigger_ts]
            /\ pc' = [pc EXCEPT ![p] = "np_ktime"]
    /\ UNCHANGED <<ld, kern, lhist, local_config, data, trigger_ts, stats, now, started, tally, cross, recent>>

\* line 116: current_ts = bpf_ktime_get_ns()
np_ktime(p) ==
    /\ pc[p] = "np_ktime"
    /\ \E t \in ClockReadings :
          /\ now' = t
          /\ loc' = [loc EXCEPT ![p].current_ts = t]
    /\ pc' = [pc EXCEPT ![p] = "np_cmp"]
    /\ UNCHANGED <<ld, kern, lhist, local_config, data, trigger_ts, stats, started, tally, cross, recent>>

\* line 119: current_ts - *trigger_ts < ONE_SECOND_NS.  trigger_ts is a plain
\* pointer: the build may load it again or reuse the value of line 113.
np_cmp(p) ==
    /\ pc[p] = "np_cmp"
    /\ \E t \in {trigger_ts, loc[p].seen} :
          AfterNeedProtection(p, WithinProtection(loc[p].current_ts, t), loc[p].current_ts)
    /\ UNCHANGED <<ld, kern, lhist, local_config, data, trigger_ts, stats, now, started, tally, cross, recent>>

\* ------------------------------------------------------------ callbacks

\* lines 128-139: count the call, then the use_below_low gate
below_low_impl(p) ==
    /\ HighLink \in kern.links
    /\ CanBegin(p)
    /\ started' = started + 1
    /\ stats' = FetchAndAdd(stats, STAT_BELOW_LOW_CALLS)
    /\ loc' = [loc EXCEPT ![p] = [IdleLoc EXCEPT !.op = "below_low"]]
    /\ pc' = [pc EXCEPT ![p] = IF LowGate(local_config) THEN "np_read" ELSE "ret"]
    /\ UNCHANGED <<ld, kern, lhist, local_config, data, trigger_ts, now, tally, cross, recent>>

\* lines 156-161: the use_below_min gate, no counter
below_min_impl(p) ==
    /\ HighLink \in kern.links
    /\ CanBegin(p)
    /\ started' = started + 1
    /\ loc' = [loc EXCEPT ![p] = [IdleLoc EXCEPT !.op = "below_min"]]
    /\ pc' = [pc EXCEPT ![p] = IF MinGate(local_config) THEN "np_read" ELSE "ret"]
    /\ UNCHANGED <<ld, kern, lhist, local_config, data, trigger_ts, stats, now, tally, cross, recent>>

\* lines 170-179: count the call, then over_high_ms && need_protection()
get_high_delay_ms_impl(p) ==
    /\ \E i \in LowSlots : LowLink(i) \in kern.links
    /\ CanBegin(p)
    /\ started' = started + 1
    /\ stats' = FetchAndAdd(stats, STAT_HIGH_DELAY_CALLS)
    /\ loc' = [loc EXCEPT ![p] = [IdleLoc EXCEPT !.op = "get_high_delay_ms"]]
    /\ pc' = [pc EXCEPT ![p] = IF DelayGate(local_config) THEN "np_read" ELSE "ret"]
    /\ UNCHANGED <<ld, kern, lhist, local_config, data, trigger_ts, now, tally, cross, recent>>

\* the two active counters taken for each other
ActiveKey_swapped(op) == IF op = "below_low" THEN STAT_HIGH_DELAY_ACTIVE ELSE STAT_BELOW_LOW_ACTIVE

\* mutant: key left at the counter of the calls
ActiveKey_stale(op) == IF op = "below_low" THEN STAT_BELOW_LOW_CALLS ELSE STAT_HIGH_DELAY_CALLS

\* the counter a callback adds to when protection is active
ActiveKey(op) == IF op = "below_low" THEN STAT_BELOW_LOW_ACTIVE ELSE STAT_HIGH_DELAY_ACTIVE

\* lines 141-145 and 180-184: count the active answer and return it
cb_active(p) ==
    /\ pc[p] = "cb_active"
    /\ stats' = FetchAndAdd(stats, ActiveKey(loc[p].op))
    /\ loc' = [loc EXCEPT ![p].retb = (loc[p].op = "below_low"),
                           ![p].retv = IF loc[p].op = "get_high_delay_ms"
                                       THEN local_config.over_high_ms ELSE 0]
    /\ pc' = [pc EXCEPT ![p] = "ret"]
    /\ UNCHANGED <<ld, kern, lhist, local_config, data, trigger_ts, now, started, tally, cross, recent>>

\* the invocation returns to its caller
Return(p) ==
    /\ pc[p] = "ret"
    /\ tally' = [low     |-> tally.low + (IF loc[p].op = "below_low" THEN 1 ELSE 0),
                 lowTrue |-> tally.lowTrue +
                             (IF loc[p].op = "below_low" /\ loc[p].retb THEN 1 ELSE 0),
                 delay   |-> tally.delay +
                             (IF loc[p].op = "get_high_delay_ms" THEN 1 ELSE 0),
                 delayNZ |-> tally.delayNZ +
                             (IF loc[p].op = "get_high_delay_ms" /\ loc[p].retv # 0
                              THEN 1 ELSE 0)]
    /\ loc' = [loc EXCEPT ![p] = IdleLoc]
    /\ pc' = [pc EXCEPT ![p] = "idle"]
    /\ UNCHANGED <<ld, kern, lhist, local_config, data, trigger_ts, stats, now, started, cross, recent>>

\* ---------------------------------------------------------- specification

Begin(p) ==
    \/ \E id \in Groups, item \in Items, val \in Vals :
          handle_count_memcg_events(p, id, item, val)
    \/ below_low_impl(p)
    \/ below_min_impl(p)
    \/ get_high_delay_ms_impl(p)

Step(p) ==
    \/ ev_cmp(p) \/ ev_load(p) \/ ev_store(p)
    \/ ev_reset_ws(p) \/ ev_reset_sum(p) \/ ev_check(p)
    \/ ev_trigger(p) \/ ev_zero(p) \/ ev_restart(p)
    \/ np_read(p) \/ np_ktime(p) \/ np_cmp(p) \/ cb_active(p)
    \/ Return(p)

\* every interleaving of the invocations
Next == \E p \in Procs : Begin(p) \/ Step(p)

\* the configuration under which every callback reaches need_protection():
\* with a gate closed a callback runs a prefix of the same steps
InitOpen ==
    /\ Init
    /\ local_config.use_below_low
    /\ local_config.use_below_min
    /\ local_config.over_high_ms # 0

Spec == InitOpen /\ [][Next]_vars

\* the invocations executed one at a time
NextSeq == \E p \in Procs : (AllIdle /\ Begin(p)) \/ Step(p)

SpecSeq == Init /\ [][NextSeq]_vars

\* ------------------------------------------- loader: main(), step by step

\* what the BPF programs own
bpf_vars == <<data, trigger_ts, stats, now, pc, loc, started, tally, cross, recent>>

\* a store to one field of skel->bss->local_config that is left out
WriteConfig_skip_min(cfg, field, v) ==
    IF field = "use_below_min" THEN cfg ELSE [cfg EXCEPT ![field] = v]

\* lines 227-231: a store to one field of skel->bss->local_config
WriteConfig(cfg, field, v) == [cfg EXCEPT ![field] = v]

\* the value main() stores into a field; id is what get_cgroup_id() returned
ConfigValue(field, a, id) ==
    CASE field = "high_cgroup_id" -> id
      [] field = "threshold" -> a.threshold
      [] field = "over_high_ms" -> a.delay_ms
      [] field = "use_below_low" -> a.use_below_low
      [] field = "use_below_min" -> a.use_below_min

\* a cleanup that closes the HIGH descriptor only
CloseAll_high_only(fds, hfd, lfds, n) == fds \ {hfd}

\* lines 354-359: close high_fd and low_fds[0 .. low_count-1] where >= 0
CloseAll(fds, hfd, lfds, n) ==
    fds \ {f \in {hfd} \cup {lfds[i] : i \in 0..(n - 1)} : f >= 0}

\* lines 347-350: the links main() holds a non-NULL pointer to
HeldLinks(l) ==
    (IF l.tp_link THEN {TpLink} ELSE {})
    \cup (IF l.high_link THEN {HighLink} ELSE {})
    \cup {LowLink(i) : i \in {j \in 0..(l.low_count - 1) : l.low_links[j]}}

\* err = e; goto cleanup
GotoCleanup(e) ==
    /\ ld' = [ld EXCEPT !.err = e, !.lpc = "cleanup_links"]
    /\ lhist' = [lhist EXCEPT !.failed = TRUE]

\* return e from main() before anything was opened
ReturnEarly(e, failure) ==
    /\ ld' = [ld EXCEPT !.err = e, !.lpc = "exit", !.status = ExitStatus(e)]
    /\ lhist' = [lhist EXCEPT !.failed = failure]

\* lines 152-190: the options, then the check for --high
parse_args ==
    /\ ld.lpc = "parse"
    /\ CASE ld.args.parse = "too_many" -> ReturnEarly(1, TRUE)
         [] ld.args.parse = "bad" -> ReturnEarly(1, TRUE)
         [] ld.args.parse = "help" -> ReturnEarly(0, FALSE)
         [] OTHER ->
              IF ~ld.args.high_path
              THEN ReturnEarly(1, TRUE)
              ELSE /\ ld' = [ld EXCEPT !.low_count = ld.args.n_low, !.lpc = "open_high"]
                   /\ UNCHANGED lhist
    /\ UNCHANGED <<local_config, kern, bpf_vars>>

\* lines 204-208: high_fd = open_cgroup(high_path)
open_high ==
    /\ ld.lpc = "open_high"
    /\ \E ok \in BOOLEAN :
          IF ok
          THEN /\ ld' = [ld EXCEPT !.high_fd = CgroupFd(0), !.i = 0, !.lpc = "open_low"]
               /\ kern' = [kern EXCEPT !.fds = @ \cup {CgroupFd(0)}]
               /\ UNCHANGED lhist
          ELSE GotoCleanup(1) /\ UNCHANGED kern
    /\ UNCHANGED <<local_config, bpf_vars>>

\* lines 210-216: low_fds[i] = open_cgroup(low_paths[i]) for each LOW cgroup
open_low ==
    /\ ld.lpc = "open_low"
    /\ IF ld.i < ld.low_count
       THEN \E ok \in BOOLEAN :
               IF ok
               THEN /\ ld' = [ld EXCEPT !.low_fds[ld.i] = CgroupFd(1 + ld.i),
                                        !.i = ld.i + 1]
                    /\ kern' = [kern EXCEPT !.fds = @ \cup {CgroupFd(1 + ld.i)}]
                    /\ UNCHANGED lhist
               ELSE GotoCleanup(1) /\ UNCHANGED kern
       ELSE /\ ld' = [ld EXCEPT !.lpc = "skel_open"]
            /\ UNCHANGED <<kern, lhist>>
    /\ UNCHANGED <<local_config, bpf_vars>>

\* lines 219-224: skel = memcg_priority__open()
skel_open ==
    /\ ld.lpc = "skel_open"
    /\ \E ok \in BOOLEAN :
          IF ok
          THEN /\ ld' = [ld EXCEPT !.skel = "open", !.i = 1, !.lpc = "configure"]
               /\ UNCHANGED lhist
          ELSE GotoCleanup(1)
    /\ UNCHANGED <<local_config, kern, bpf_vars>>

\* lines 227-231, one store per step; get_cgroup_id() (lines 64-75) returns 0
\* when stat() fails and the inode number otherwise
configure ==
    /\ ld.lpc = "configure"
    /\ LET field == ConfigOrder[ld.i] IN
       \E id \in {0, HighGroup} :
          /\ local_config' = WriteConfig(local_config, field,
                                         ConfigValue(field, ld.args, id))
          /\ lhist' = [lhist EXCEPT !.written = @ \cup {field},
                                    !.id0 = IF field = "high_cgroup_id"
                                            THEN id = 0 ELSE @]
    /\ ld' = IF ld.i < Len(ConfigOrder)
             THEN [ld EXCEPT !.i = ld.i + 1]
             ELSE [ld EXCEPT !.lpc = "check_id"]
    /\ UNCHANGED <<kern, bpf_vars>>

\* lines 233-237: a cgroup id of 0 is an error
check_id ==
    /\ ld.lpc = "check_id"
    /\ IF local_config.high_cgroup_id = 0
       THEN GotoCleanup(1)
       ELSE /\ ld' = [ld EXCEPT !.lpc = "load"]
            /\ UNCHANGED lhist
    /\ UNCHANGED <<local_config, kern, bpf_vars>>

\* lines 252-256: err = memcg_priority__load(skel)
load ==
    /\ ld.lpc = "load"
    /\ \E e \in {0} \cup LoadErrors :
          IF e = 0
          THEN /\ ld' = [ld EXCEPT !.err = 0, !.skel = "loaded", !.lpc = "attach_tp"]
               /\ kern' = [kern EXCEPT !.loaded = TRUE]
               /\ lhist' = [lhist EXCEPT !.ever_loaded = TRUE]
          ELSE GotoCleanup(e) /\ UNCHANGED kern
    /\ UNCHANGED <<local_config, bpf_vars>>

\* lines 259-264: tp_link = bpf_program__attach(handle_count_memcg_events)
attach_tp ==
    /\ ld.lpc = "attach_tp"
    /\ \E ok \in BOOLEAN :
          IF ok
          THEN /\ ld' = [ld EXCEPT !.tp_link = TRUE, !.lpc = "find_high"]
               /\ kern' = [kern EXCEPT !.links = @ \cup {TpLink}]
               /\ lhist' = [lhist EXCEPT !.ever_attached = TRUE]
          ELSE GotoCleanup(1) /\ UNCHANGED kern
    /\ UNCHANGED <<local_config, bpf_vars>>

\* lines 268-273 and 286-291: bpf_object__find_map_by_name()
find_map ==
    /\ ld.lpc \in {"find_high", "find_low"}
    /\ \E ok \in BOOLEAN :
          IF ok
          THEN /\ ld' = [ld EXCEPT !.i = 0,
                                   !.lpc = IF ld.lpc = "find_high"
                                           THEN "attach_high" ELSE "attach_low"]
               /\ UNCHANGED lhist
          ELSE GotoCleanup(1)
    /\ UNCHANGED <<local_config, kern, bpf_vars>>

\* lines 275-282: high_link = bpf_map__attach_struct_ops_opts(high_mcg_ops)
attach_high ==
    /\ ld.lpc = "attach_high"
    /\ \E ok \in BOOLEAN :
          IF ok
          THEN /\ ld' = [ld EXCEPT !.high_link = TRUE, !.lpc = "find_low"]
               /\ kern' = [kern EXCEPT !.links = @ \cup {HighLink}]
               /\ UNCHANGED lhist
          ELSE GotoCleanup(1) /\ UNCHANGED kern
    /\ UNCHANGED <<local_config, bpf_vars>>

\* lines 293-303: low_links[i] = bpf_map__attach_struct_ops_opts(low_mcg_ops)
attach_low ==
    /\ ld.lpc = "attach_low"
    /\ IF ld.i < ld.low_count
       THEN \E ok \in BOOLEAN :
               IF ok
               THEN /\ ld' = [ld EXCEPT !.low_links[ld.i] = TRUE, !.i = ld.i + 1]
                    /\ kern' = [kern EXCEPT !.links = @ \cup {LowLink(ld.i)}]
                    /\ UNCHANGED lhist
               ELSE GotoCleanup(1) /\ UNCHANGED kern
       ELSE /\ ld' = [ld EXCEPT !.lpc = "main_loop"]
            /\ UNCHANGED <<kern, lhist>>
    /\ UNCHANGED <<local_config, bpf_vars>>

\* lines 309-342: the loop ends when a signal has cleared running; the final
\* statistics are read and printed
main_loop ==
    /\ ld.lpc = "main_loop"
    /\ ld' = [ld EXCEPT !.lpc = "cleanup_links"]
    /\ UNCHANGED <<local_config, kern, lhist, bpf_vars>>

\* lines 347-350: bpf_link__destroy() of tp_link, high_link and
\* low_links[0 .. low_count-1]; a NULL link is ignored
cleanup_links ==
    /\ ld.lpc = "cleanup_links"
    /\ kern' = [kern EXCEPT !.links = @ \ HeldLinks(ld)]
    /\ ld' = [ld EXCEPT !.lpc = "cleanup_skel"]
    /\ UNCHANGED <<local_config, lhist, bpf_vars>>

\* line 352: memcg_priority__destroy(skel)
cleanup_skel ==
    /\ ld.lpc = "cleanup_skel"
    /\ kern' = [kern EXCEPT !.loaded = IF ld.skel = "null" THEN @ ELSE FALSE]
    /\ ld' = [ld EXCEPT !.skel = IF @ = "null" THEN @ ELSE "destroyed",
                        !.lpc = "cleanup_fds"]
    /\ UNCHANGED <<local_config, lhist, bpf_vars>>

\* lines 354-361: close the descriptors and return err
cleanup_fds ==
    /\ ld.lpc = "cleanup_fds"
    /\ kern' = [kern EXCEPT !.fds = CloseAll(@, ld.high_fd, ld.low_fds, ld.low_count)]
    /\ ld' = [ld EXCEPT !.lpc = "exit", !.status = ExitStatus(ld.err)]
    /\ UNCHANGED <<local_config, lhist, bpf_vars>>

LoaderStep ==
    \/ parse_args \/ open_high \/ open_low \/ skel_open
    \/ configure \/ check_id \/ load
    \/ attach_tp \/ find_map \/ attach_high \/ attach_low
    \/ main_loop
    \/ cleanup_links \/ cleanup_skel \/ cleanup_fds

\* the state when main() is entered
InitLoader ==
    /\ local_config = ZeroConfig
    /\ data = [sum |-> 0, window_start_ts |-> 0]
    /\ trigger_ts = 0
    /\ stats = [k \in StatKeys |-> 0]
    /\ now = 0
    /\ pc = [p \in Procs |-> "idle"]
    /\ loc = [p \in Procs |-> IdleLoc]
    /\ started = 0
    /\ tally = [low |-> 0, lowTrue |-> 0, delay |-> 0, delayNZ |-> 0]
    /\ cross = -1
    /\ recent = NoEvents
    /\ \E a \in Args :
          ld = [lpc |-> "parse", args |-> a, low_count |-> 0,
                high_fd |-> -1, low_fds |-> [i \in LowSlots |-> -1],
                skel |-> "null", tp_link |-> FALSE, high_link |-> FALSE,
                low_links |-> [i \in LowSlots |-> FALSE],
                i |-> 0, err |-> 0, status |-> -1]
    /\ kern = [fds |-> {}, links |-> {}, loaded |-> FALSE]
    /\ lhist = [failed |-> FALSE, id0 |-> FALSE, ever_loaded |-> FALSE,
                ever_attached |-> FALSE, written |-> {}]

\* the loader, with the programs invoked one at a time through the links
\* attached so far
NextLoader == LoaderStep \/ NextSeq

SpecLoader == InitLoader /\ [][NextLoader]_vars

\* ================================================================ claims

T == local_config.threshold

AtRet(p, op) == pc[p] = "ret" /\ loc[p].op = op

\* the event of invocation p is for the monitored group and a page fault
Counted(p) == loc[p].id = local_config.high_cgroup_id /\ loc[p].item = 23

\* the answer a callback gives: protected, or a delay
Answer(p) == IF loc[p].op = "get_high_delay_ms" THEN loc[p].retv # 0 ELSE loc[p].retb

\* what the code's need_protection() computes at time n from the stored
\* timestamp, when nothing writes it meanwhile
StoredActive(n) ==
    /\ trigger_ts # 0
    /\ n >= trigger_ts
    /\ n - trigger_ts < ONE_SECOND_NS

\* C1: executed one at a time, the event at time t that makes the values of
\* the window exceed the threshold records a crossing at t, and from then on
\* (until a later crossing) a protection query at time n answers active
\* exactly when t <= n < t + 1 second.
C1_ProtectedForOneSecond ==
    /\ \A p \in Procs :
          AtRet(p, "on_event") /\ Counted(p) /\ loc[p].total > T
             => cross = loc[p].current_ts
    /\ \A p \in Procs :
          pc[p] = "ret" /\ loc[p].asked /\ cross >= 0
             => (Answer(p) <=> (loc[p].qtime >= cross
                                /\ loc[p].qtime - cross < ONE_SECOND_NS))

\* C2 (as claimed): executed one at a time, a counted event that arrives a
\* second or more after window_start of a window that stayed at or below the
\* threshold leaves window_start = its time and sum = its value, and triggers
\* only if its own value exceeds the threshold.
C2_FreshWindowKeepsValue ==
    \A p \in Procs :
       AtRet(p, "on_event") /\ Counted(p) /\ loc[p].sum0 <= T
       /\ loc[p].current_ts - loc[p].ws >= ONE_SECOND_NS
          => /\ data.window_start_ts = loc[p].current_ts
             /\ data.sum = loc[p].val
             /\ (loc[p].crossed => loc[p].val > T)

\* C2 (amended): the same event leaves window_start = its time and the old sum
\* discarded: sum = its value when that is at most the threshold, and otherwise
\* the crossing is recorded at its time and sum = 0.
C2_FreshWindow ==
    \A p \in Procs :
       AtRet(p, "on_event") /\ Counted(p) /\ loc[p].sum0 <= T
       /\ loc[p].current_ts - loc[p].ws >= ONE_SECOND_NS
          => /\ data.window_start_ts = loc[p].current_ts
             /\ data.sum = (IF loc[p].val > T THEN 0 ELSE loc[p].val)
             /\ (loc[p].crossed <=> loc[p].val > T)
             /\ (loc[p].crossed => trigger_ts = loc[p].current_ts)

\* an old partial sum was discarded by an event past the 1-second boundary
C2_Witness ==
    \E p \in Procs :
       /\ AtRet(p, "on_event") /\ Counted(p)
       /\ loc[p].current_ts - loc[p].ws >= ONE_SECOND_NS
       /\ loc[p].sum0 > 0 /\ loc[p].sum0 <= T
       /\ loc[p].val > 0 /\ loc[p].val <= T
       /\ data.sum = loc[p].val

\* C3: no step of an on_event invocation for another group, or of another
\* kind than page fault, changes the window, the trigger timestamp or a counter.
C3_IrrelevantEventFrame ==
    [][\A p \in Procs :
          /\ pc'[p] # pc[p]
          /\ \/ loc[p].op = "on_event" /\ ~Counted(p)
             \/ loc'[p].op = "on_event"
                /\ (loc'[p].id # local_config.high_cgroup_id \/ loc'[p].item # 23)
          => UNCHANGED <<data, trigger_ts, stats>>]_vars

\* an event that is not counted returned, with a value above the threshold
\* and a non-empty window standing
C3_Witness ==
    \E p \in Procs :
       /\ AtRet(p, "on_event") /\ ~Counted(p)
       /\ loc[p].val > T
       /\ data.sum > 0

\* C4: executed one at a time, every below_low call adds one to the
\* protect-query counter; it returns false when use_below_low is off and the
\* answer of need_protection() otherwise, and adds one to protect-active
\* exactly when it returns true.
C4_BelowLow ==
    /\ AllIdle => stats[2] = tally.low /\ stats[3] = tally.lowTrue
    /\ \A p \in Procs :
          AtRet(p, "below_low")
             => /\ stats[2] = tally.low + 1
                /\ loc[p].retb = (local_config.use_below_low /\ StoredActive(loc[p].qtime))
                /\ stats[3] = tally.lowTrue + (IF loc[p].retb THEN 1 ELSE 0)
                /\ (~local_config.use_below_low => ~loc[p].retb /\ stats[3] = tally.lowTrue)

\* below_low answered true
C4_Witness ==
    \E p \in Procs :
       AtRet(p, "below_low") /\ loc[p].retb /\ stats[3] = 1 /\ stats[2] = 2

\* C5: executed one at a time, every get_high_delay_ms call adds one to the
\* throttle-query counter; it returns over_high_ms and adds one to
\* throttle-active when over_high_ms > 0 and protection is active, and returns
\* 0 without touching throttle-active otherwise.
C5_HighDelay ==
    /\ AllIdle => stats[0] = tally.delay /\ stats[1] = tally.delayNZ
    /\ \A p \in Procs :
          AtRet(p, "get_high_delay_ms")
             => LET hit == local_config.over_high_ms > 0 /\ StoredActive(loc[p].qtime)
                IN  /\ stats[0] = tally.delay + 1
                    /\ loc[p].retv = (IF hit THEN local_config.over_high_ms ELSE 0)
                    /\ stats[1] = tally.delayNZ + (IF hit THEN 1 ELSE 0)

\* get_high_delay_ms returned the configured delay
C5_Witness ==
    \E p \in Procs :
       /\ AtRet(p, "get_high_delay_ms")
       /\ loc[p].retv = local_config.over_high_ms /\ loc[p].retv > 0
       /\ stats[1] = 1

\* C6: under every interleaving no counter ever decreases, and when no call
\* is in progress each counter equals the number of completed calls that met
\* its condition.
C6_Counters ==
    /\ [](AllIdle => /\ stats[0] = tally.delay
                     /\ stats[1] = tally.delayNZ
                     /\ stats[2] = tally.low
                     /\ stats[3] = tally.lowTrue)
    /\ [][\A k \in StatKeys : stats'[k] >= stats[k]]_vars

\* two below_low calls in progress at once both answered true and both were
\* counted
C6_Witness ==
    \E p, q \in Procs :
       /\ p # q
       /\ AtRet(p, "below_low") /\ AtRet(q, "below_low")
       /\ loc[p].retb /\ loc[q].retb
       /\ stats[2] = 2 /\ stats[3] = 2

\* C7: executed one at a time, below_min returns false when use_below_min is
\* off and the answer of need_protection() otherwise, whatever use_below_low
\* is, and leaves the four counters as they were.
C7_BelowMin ==
    \A p \in Procs :
       AtRet(p, "below_min")
          => /\ loc[p].retb = (local_config.use_below_min /\ StoredActive(loc[p].qtime))
             /\ stats[0] = tally.delay /\ stats[1] = tally.delayNZ
             /\ stats[2] = tally.low /\ stats[3] = tally.lowTrue

\* below_min answered true with use_below_low off
C7_Witness ==
    \E p \in Procs :
       AtRet(p, "below_min") /\ loc[p].retb /\ ~local_config.use_below_low

\* C8: need_protection() answers false while no crossing was ever recorded,
\* and once one was recorded at t (any clock value) it answers, at every time
\* n >= t, true exactly when n - t < 1 second.
C8_ActiveIffWithinSecond ==
    \A p \in Procs :
       pc[p] = "ret" /\ loc[p].asked
          => (loc[p].np <=> (cross >= 0 /\ loc[p].qtime >= cross
                             /\ loc[p].qtime - cross < ONE_SECOND_NS))

\* C9 (as claimed): executed one at a time, whenever the counted events that
\* arrived since the last crossing within an interval shorter than a second
\* ending at the current event add up to more than the threshold, the current
\* event triggers.
C9_RollingWindow ==
    \A p \in Procs :
       AtRet(p, "on_event") /\ Counted(p) /\ ~loc[p].crossed
          => \A a \in Times :
                a <= loc[p].current_ts /\ loc[p].current_ts - a < ONE_SECOND_NS
                   => SumRange(recent, a, loc[p].current_ts) <= T

\* C9 (amended): the window is fixed at window_start: a counted event triggers
\* exactly when the events counted since window_start, less than a second
\* before it and after the last crossing, add up with it to more than the
\* threshold (its own value alone when it arrives a second or more after
\* window_start).
C9_FixedWindow ==
    \A p \in Procs :
       AtRet(p, "on_event") /\ Counted(p)
          => (loc[p].crossed <=> loc[p].total > T)

\* an event at most the threshold triggered on top of what the window held
C9_Witness ==
    \E p \in Procs :
       /\ AtRet(p, "on_event") /\ Counted(p)
       /\ loc[p].crossed /\ loc[p].val <= T /\ loc[p].total > T

\* two counted events, the only invocations so far, both inside the first
\* second, each at most the threshold and together above it, have both run to
\* their return
Race(p, q) ==
    /\ p # q /\ started = 2
    /\ AtRet(p, "on_event") /\ AtRet(q, "on_event")
    /\ Counted(p) /\ Counted(q)
    /\ loc[p].current_ts < ONE_SECOND_NS /\ loc[q].current_ts < ONE_SECOND_NS
    /\ loc[p].val <= T /\ loc[q].val <= T
    /\ loc[p].val + loc[q].val > T

\* C10: with no mutual exclusion, such a pair triggers protection exactly when
\* one of the two accumulated on top of the value the other stored; when both
\* loaded the sum before either stored, one update is lost and nothing
\* triggers.  Both outcomes are reachable (C10_Lost, C10_Triggered).
C10_LostUpdate ==
    \A p, q \in Procs :
       Race(p, q)
          => /\ (loc[p].crossed \/ loc[q].crossed)
                <=> (\/ loc[p].reg = loc[p].val + loc[q].val
                     \/ loc[q].reg = loc[p].val + loc[q].val)
             /\ ~(loc[p].crossed \/ loc[q].crossed)
                => trigger_ts = 0 /\ data.sum < loc[p].val + loc[q].val

\* the interleaving that loses an update: no trigger
C10_Lost ==
    \E p, q \in Procs :
       Race(p, q) /\ ~loc[p].crossed /\ ~loc[q].crossed /\ cross = -1

\* the interleaving that triggers
C10_Triggered ==
    \E p, q \in Procs :
       Race(p, q) /\ (loc[p].crossed \/ loc[q].crossed) /\ cross >= 0

\* the operation of the invocation of context p that takes the current step
StepOp(p) == IF pc[p] = "idle" THEN loc'[p].op ELSE loc[p].op

\* C11: no step of below_low, below_min or get_high_delay_ms changes the
\* window or the trigger timestamp; no step of on_event changes a counter; and
\* the trigger timestamp changes only in a step of an on_event invocation
\* whose comparison at line 93 found a window sum above the threshold.
C11_WriterSeparation ==
    [][/\ \A p \in Procs :
             pc'[p] # pc[p]
                => /\ StepOp(p) \in {"below_low", "below_min", "get_high_delay_ms"}
                      => UNCHANGED <<data, trigger_ts>>
                   /\ StepOp(p) = "on_event" => UNCHANGED stats
       /\ trigger_ts' # trigger_ts
             => \E p \in Procs :
                   /\ pc'[p] # pc[p]
                   /\ loc[p].op = "on_event"
                   /\ loc[p].chk > T]_vars

\* an on_event invocation recorded a crossing and a below_low invocation
\* counted itself, both run to their return
C11_Witness ==
    \E p, q \in Procs :
       /\ AtRet(p, "on_event") /\ loc[p].crossed /\ loc[p].chk > T
       /\ trigger_ts = loc[p].current_ts /\ trigger_ts > 0
       /\ AtRet(q, "below_low") /\ loc[q].retb
       /\ stats[STAT_BELOW_LOW_ACTIVE] > 0

\* C14: with on_event calls executed one at a time, a counted call that leaves
\* a window sum above the threshold ends with trigger_ts equal to its own
\* timestamp, sum zero and window_start_ts equal to its timestamp, and nothing
\* it or its predecessors added counts toward the next crossing; a call that
\* leaves a sum at most the threshold (equal included) never writes trigger_ts.
C14_CrossingVersusNot ==
    /\ [](\A p \in Procs :
             AtRet(p, "on_event") /\ Counted(p)
                => IF loc[p].chk > T
                   THEN /\ loc[p].crossed
                        /\ trigger_ts = loc[p].current_ts
                        /\ data.sum = 0
                        /\ data.window_start_ts = loc[p].current_ts
                        /\ recent = NoEvents
                   ELSE ~loc[p].crossed)
    /\ [][\A p \in Procs :
             pc'[p] # pc[p] /\ StepOp(p) = "on_event" /\ ~loc'[p].crossed
                => trigger_ts' = trigger_ts]_vars

\* after an earlier crossing, a counted call left the sum exactly at the
\* threshold and returned without touching the recorded crossing
C14_Witness ==
    \E p \in Procs :
       /\ AtRet(p, "on_event") /\ Counted(p)
       /\ loc[p].chk = T /\ data.sum = T /\ ~loc[p].crossed
       /\ cross > 0 /\ trigger_ts = cross /\ cross < loc[p].current_ts
       /\ data.window_start_ts = cross

\* C15: with on_event calls executed one at a time, after every on_event call
\* the window sum is the total value of the counted events that arrived since
\* the window was last started or reset (a crossing event excluded), and each
\* of those events arrived less than 1 second after window_start_ts.
C15_SumIsWindowContent ==
    \A p \in Procs :
       AtRet(p, "on_event")
          => /\ data.sum = SumRange(recent, data.window_start_ts, MaxClock)
             /\ \A t \in Times :
                   t >= data.window_start_ts /\ recent[t] > 0
                      => t - data.window_start_ts < ONE_SECOND_NS

\* a counted call restarted the window: older events since the last crossing
\* are no longer part of the sum, which is the call's own value
C15_Witness ==
    \E p \in Procs :
       /\ AtRet(p, "on_event") /\ Counted(p) /\ ~loc[p].crossed
       /\ data.window_start_ts = loc[p].current_ts
       /\ data.sum > 0
       /\ SumRange(recent, 0, MaxClock) > data.sum

\* C16: a protection query that overlaps on_event calls reads correctly: when
\* the crossing it read at line 113 was recorded less than 1 second before the
\* timestamp it took, and the crossing standing in trigger_ts_map when it
\* compared is also less than 1 second old at that timestamp, need_protection
\* returns active.  Crossings recorded at clock value 0 are left out (C8).
C16_ConcurrentQueryActive ==
    \A p \in Procs :
       /\ pc[p] \in {"ret", "cb_active"} /\ loc[p].asked
       /\ loc[p].seen > 0
       /\ loc[p].seen <= loc[p].qtime
       /\ loc[p].qtime - loc[p].seen < ONE_SECOND_NS
       /\ loc[p].mem > 0
       /\ loc[p].qtime - loc[p].mem < ONE_SECOND_NS
       => loc[p].np

\* C17: under every interleaving the trigger timestamp never moves to an
\* earlier time: each write stores a timestamp at least the one it replaces.
\* Stated for writes of a nonzero timestamp; a write of clock value 0 would
\* in addition put back the never-triggered value.
C17_TriggerMonotone ==
    [][trigger_ts' # 0 => trigger_ts' >= trigger_ts]_vars

\* C18: an on_event call restarts the window (lines 88-89) only when the
\* window_start_ts it read is at least 1 second older than its own timestamp;
\* a call whose timestamp is earlier than the stored window_start_ts keeps the
\* accumulated sum.
C18_RestartOnlyWhenAged ==
    [][\A p \in Procs :
          pc[p] = "ev_cmp" /\ pc'[p] = "ev_reset_ws"
             => /\ loc[p].current_ts >= data.window_start_ts
                /\ loc[p].current_ts - data.window_start_ts >= ONE_SECOND_NS]_vars

\* an on_event invocation is between its entry and its return in context p
InEvent(p) == pc[p] # "idle" /\ loc[p].op = "on_event"

\* C19: whenever no on_event call is in progress the window sum is at most
\* the threshold, with calls one at a time and under every interleaving.
C19_SumAtMostThresholdAtRest ==
    (\A p \in Procs : ~InEvent(p)) => data.sum <= T

\* at rest after two overlapping counted calls of which one recorded a
\* crossing, with a sum equal to the threshold left standing
C19_Witness ==
    /\ AllIdle
    /\ cross >= 0 /\ trigger_ts = cross
    /\ data.sum = T
    /\ data.window_start_ts # cross

\* C20: in every reachable state, in the middle of a callback included,
\* throttle-active is at most throttle-queries and protect-active is at most
\* protect-queries.
C20_ActiveAtMostCalls ==
    /\ stats[STAT_HIGH_DELAY_ACTIVE] <= stats[STAT_HIGH_DELAY_CALLS]
    /\ stats[STAT_BELOW_LOW_ACTIVE] <= stats[STAT_BELOW_LOW_CALLS]

\* a below_low invocation has counted its call and not yet its active answer,
\* after an earlier one counted both
C20_Witness ==
    \E p \in Procs :
       /\ pc[p] = "cb_active" /\ loc[p].op = "below_low"
       /\ stats[STAT_BELOW_LOW_ACTIVE] > 0
       /\ stats[STAT_BELOW_LOW_CALLS] = stats[STAT_BELOW_LOW_ACTIVE] + 1

\* every field of local_config holds the value main() was given for it, and
\* the cgroup id is a resolved one
ConfigComplete ==
    /\ lhist.written = ConfigFields
    /\ local_config.high_cgroup_id # 0
    /\ local_config.threshold = ld.args.threshold
    /\ local_config.over_high_ms = ld.args.delay_ms
    /\ local_config.use_below_low = ld.args.use_below_low
    /\ local_config.use_below_min = ld.args.use_below_min

\* C12: every field of local_config is written before the object is loaded
\* and before any link is attached, and none is written after the first
\* attach: no program invocation runs with a partly written or a later
\* changed configuration.
C12_ConfigBeforeLoadAndAttach ==
    /\ [](lhist.ever_loaded \/ lhist.ever_attached \/ kern.links # {}
             => ConfigComplete)
    /\ [](\A p \in Procs : pc[p] # "idle" => ConfigComplete)
    /\ [][lhist.ever_loaded \/ lhist.ever_attached
             => local_config' = local_config]_vars

\* with both LOW cgroups attached and main() in its loop, a callback that
\* passed its gate and found protection active is about to count it
C12_Witness ==
    /\ ld.lpc = "main_loop"
    /\ ld.low_count = MAX_LOW_CGROUPS
    /\ kern.links = {TpLink, HighLink} \cup {LowLink(i) : i \in LowSlots}
    /\ local_config.use_below_min /\ local_config.over_high_ms = MaxDelay
    /\ \E p \in Procs : pc[p] = "cb_active" /\ loc[p].op = "get_high_delay_ms"

\* C13: every setup failure ends in a non-zero exit status; when main()
\* returns, no link is attached any more and no cgroup descriptor is open;
\* and when the cgroup id resolved to 0, nothing is ever loaded or attached.
C13_FailureExitAndCleanup ==
    /\ ld.lpc = "exit"
          => /\ lhist.failed => ld.status # 0
             /\ kern.links = {}
             /\ kern.fds = {}
             /\ ~kern.loaded
    /\ lhist.id0 => ~lhist.ever_loaded /\ ~lhist.ever_attached /\ kern.links = {}

\* main() returned 1 after the second LOW attach failed: the tracepoint, the
\* HIGH link and the first LOW link had been attached, three descriptors opened
C13_Witness ==
    /\ ld.lpc = "exit" /\ lhist.failed /\ ld.status = 1
    /\ ld.tp_link /\ ld.high_link /\ ld.low_links[0] /\ ~ld.low_links[1]
    /\ ld.low_count = MAX_LOW_CGROUPS
    /\ ld.high_fd = CgroupFd(0)
    /\ \A i \in LowSlots : ld.low_fds[i] = CgroupFd(1 + i)
    /\ kern.links = {} /\ kern.fds = {}

====
